---- MODULE Spec2Model ----
(***************************************************************************)
(* Model of the chino-os process manager (kernel/thread/ProcessManager.cpp) *)
(* The kernel heap is the sequence mem: the address of a list node is its  *)
(* index, 0 is the null pointer.  Chino::list<T> is a singly traversed     *)
(* intrusive list; a list object is its head and tail pointer, an iterator *)
(* is a node pointer.                                                      *)
(***************************************************************************)
EXTENDS Integers, Sequences, FiniteSets, TLC

\* ---------------------------------------------------------------- bounds
\* Number of threads callers create (the idle thread comes on top).
MaxThreads == 3

\* ProcessManager.hpp: highest valid thread priority.
MAX_THREAD_PRIORITY == 5

\* ProcessManager.hpp: readyThreads_ is an array of MAX_THREAD_PRIORITY + 1 lists.
ReadySize == MAX_THREAD_PRIORITY + 1

\* Inputs of the callers: process names, priorities (in range, the maximum,
\* one above it), the parameter of an added thread (CreateProcess passes 0),
\* thread entry points.
Names == {"A"}
Priorities == {0, 3, MAX_THREAD_PRIORITY, MAX_THREAD_PRIORITY + 1}
Parameters == {1}
EntryPoints == {"ThreadMain"}

VARIABLES
    mem,                    \* kernel heap: list nodes by address
    _processes,              \* ProcessManager::_processes   (list<Process>)
    readyThreads_,          \* ProcessManager::readyThreads_ (array of list<HANDLE>)
    runningThread_,         \* ProcessManager::runningThread_ (iterator)
    idleProcess_,           \* ProcessManager::idleProcess_   (HANDLE)
    g_CurrentThreadContext, \* address published to the trampoline
    timerArmed,             \* ArchSetupSchedulerTimer has run
    halted,                 \* the context waiting in ArchHaltProcessor of StartScheduler
    fault,                  \* the kassert that stopped the kernel, or "none"
    last                    \* the call that made the last step, and its result

vars == <<mem, _processes, readyThreads_, runningThread_, idleProcess_,
          g_CurrentThreadContext, timerArmed, halted, fault, last>>

\* ------------------------------------------------------------ Chino::list
EmptyList == [head |-> 0, tail |-> 0]

NullIt == [node_ |-> 0]

NullContext == [node |-> 0, field |-> "null"]

\* The context of the kernel's start-up code, which belongs to no Thread.
BootContext == [node |-> 0, field |-> "boot"]

\* iterator::good(): the iterator designates a node.
good(it) == it.node_ # 0

\* list::begin()
begin(l) == [node_ |-> l.head]

\* list::empty()
empty(l) == l.head = 0

\* iterator::operator++ : follow the node's link.
Inc(m, it) == [node_ |-> m[it.node_].next]

\* list::emplace_back: allocate a node, link it behind the tail.
emplace_back(m, l, node) ==
    LET a == Len(m) + 1
        m1 == IF l.tail = 0 THEN m ELSE [m EXCEPT ![l.tail].next = a]
    IN [mem  |-> Append(m1, node),
        list |-> [head |-> IF l.head = 0 THEN a ELSE l.head, tail |-> a],
        it   |-> [node_ |-> a]]

\* The nodes of a list from node a on, in link order.
RECURSIVE Walk(_, _)
Walk(m, a) == IF a = 0 THEN <<>> ELSE <<a>> \o Walk(m, m[a].next)

\* The elements of a list, in order.
Nodes(m, l) == Walk(m, l.head)

\* ----------------------------------------------------------------- handles
HandleToListIt(handle) == [node_ |-> handle]

ToHandle(value) == value.node_

\* ------------------------------------------------------------------- nodes
ArchInitializeThreadContextArch(entryPoint, exitHandler, parameter) ==
    [entry |-> entryPoint, exit |-> exitHandler, parameter |-> parameter]

NoContext == [entry |-> "", exit |-> "", parameter |-> 0]

\* list<Process>::node holding Process(name)
Process(name) ==
    [kind |-> "Process", name_ |-> name, threads_ |-> EmptyList,
     priority_ |-> 0, threadContext_ |-> NoContext, value |-> 0, next |-> 0]

\* list<Thread>::node holding Thread(entryPoint, priority, parameter)
Thread(entryPoint, priority, parameter) ==
    [kind |-> "Thread", name_ |-> "", threads_ |-> EmptyList,
     priority_ |-> priority,
     threadContext_ |-> ArchInitializeThreadContextArch(entryPoint, "OnThreadExit", parameter),
     value |-> 0, next |-> 0]

\* list<HANDLE>::node holding a thread handle
ReadyEntry(handle) ==
    [kind |-> "Handle", name_ |-> "", threads_ |-> EmptyList,
     priority_ |-> 0, threadContext_ |-> NoContext, value |-> handle, next |-> 0]

\* Variant: the bound of the constructor's kassert is exclusive.
ThreadPriorityOk_Exclusive(priority) == priority < MAX_THREAD_PRIORITY

\* kassert(priority <= MAX_THREAD_PRIORITY) of the Thread constructor
ThreadPriorityOk(priority) == priority <= MAX_THREAD_PRIORITY

\* Thread::GetContext(): the address of the thread's threadContext_ member
GetContext(it) == [node |-> it.node_, field |-> "threadContext_"]

\* ------------------------------------------------------------- operations
\* Variant: the slots are indexed from the highest priority down.
AddReadyThread_Inverted(m, ready, handle) ==
    LET it == HandleToListIt(handle)
        priority == m[it.node_].priority_
    IN IF ~(priority < ReadySize)
       THEN [mem |-> m, ready |-> ready, fault |-> "AddReadyThread:priority"]
       ELSE LET slot == (ReadySize - 1) - priority
                eb == emplace_back(m, ready[slot], ReadyEntry(handle))
            IN [mem |-> eb.mem, ready |-> [ready EXCEPT ![slot] = eb.list],
                fault |-> "none"]

\* Variant: the handle is put at the front of the slot.
AddReadyThread_Front(m, ready, handle) ==
    LET it == HandleToListIt(handle)
        priority == m[it.node_].priority_
        a == Len(m) + 1
        l == ready[priority]
    IN IF ~(priority < ReadySize)
       THEN [mem |-> m, ready |-> ready, fault |-> "AddReadyThread:priority"]
       ELSE [mem |-> Append(m, [ReadyEntry(handle) EXCEPT !.next = l.head]),
             ready |-> [ready EXCEPT ![priority] =
                          [head |-> a, tail |-> IF l.tail = 0 THEN a ELSE l.tail]],
             fault |-> "none"]

\* ProcessManager::AddReadyThread
AddReadyThread(m, ready, handle) ==
    LET it == HandleToListIt(handle)
        priority == m[it.node_].priority_
    IN IF ~(priority < ReadySize)
       THEN [mem |-> m, ready |-> ready, fault |-> "AddReadyThread:priority"]
       ELSE LET eb == emplace_back(m, ready[priority], ReadyEntry(handle))
                r1 == [ready EXCEPT ![priority] = eb.list]
            IN [mem |-> eb.mem, ready |-> r1,
                fault |-> IF empty(r1[priority]) THEN "AddReadyThread:empty" ELSE "none"]

\* Variant: the new thread is not handed to AddReadyThread.
AddThread_NotReady(m, ready, p, entryPoint, priority, parameter) ==
    IF ~(priority <= MAX_THREAD_PRIORITY)
    THEN [mem |-> m, ready |-> ready, fault |-> "Thread:priority", ret |-> 0]
    ELSE LET eb == emplace_back(m, m[p].threads_, Thread(entryPoint, priority, parameter))
             m1 == [eb.mem EXCEPT ![p].threads_ = eb.list]
         IN [mem |-> m1, ready |-> ready, fault |-> "none", ret |-> ToHandle(eb.it)]

\* ProcessManager::Process::AddThread on the process at node p
AddThread(m, ready, p, entryPoint, priority, parameter) ==
    IF ~ThreadPriorityOk(priority)
    THEN [mem |-> m, ready |-> ready, fault |-> "Thread:priority", ret |-> 0]
    ELSE LET eb == emplace_back(m, m[p].threads_, Thread(entryPoint, priority, parameter))
             m1 == [eb.mem EXCEPT ![p].threads_ = eb.list]
             handle == ToHandle(eb.it)
             ar == AddReadyThread(m1, ready, handle)
         IN [mem |-> ar.mem, ready |-> ar.ready, fault |-> ar.fault, ret |-> handle]

\* Variant: priority and parameter of the main thread are passed in swapped order.
CreateProcess_SwappedArgs(m, procs, ready, name, mainThreadPriority, entryPoint) ==
    LET eb == emplace_back(m, procs, Process(name))
        it == eb.it
        at == AddThread(eb.mem, ready, it.node_, entryPoint, 0, mainThreadPriority)
    IN [mem |-> at.mem, procs |-> eb.list, ready |-> at.ready, fault |-> at.fault,
        ret |-> IF at.fault = "none" THEN ToHandle(it) ELSE 0,
        thread |-> at.ret]

\* ProcessManager::CreateProcess
CreateProcess(m, procs, ready, name, mainThreadPriority, entryPoint) ==
    LET eb == emplace_back(m, procs, Process(name))
        it == eb.it
        at == AddThread(eb.mem, ready, it.node_, entryPoint, mainThreadPriority, 0)
    IN [mem |-> at.mem, procs |-> eb.list, ready |-> at.ready, fault |-> at.fault,
        ret |-> IF at.fault = "none" THEN ToHandle(it) ELSE 0,
        thread |-> at.ret]

\* Variant: the scan runs forward, from slot 0 up.
ScanReady_Forward(ready, i) ==
    IF \A p \in 0..i : empty(ready[p]) THEN NullIt
    ELSE begin(ready[CHOOSE p \in 0..i :
                  ~empty(ready[p]) /\ \A q \in 0..(p - 1) : empty(ready[q])])

\* Variant: the scan takes the last entry of the slot it finds.
ScanReady_Tail(ready, i) ==
    IF \A p \in 0..i : empty(ready[p]) THEN NullIt
    ELSE [node_ |-> ready[CHOOSE p \in 0..i :
                  ~empty(ready[p]) /\ \A q \in (p + 1)..i : empty(ready[q])].tail]

\* The reverse scan of readyThreads_ from slot i down to slot 0.
RECURSIVE ScanReady(_, _)
ScanReady(ready, i) ==
    IF i < 0 THEN NullIt
    ELSE IF ~empty(ready[i]) THEN begin(ready[i])
    ELSE ScanReady(ready, i - 1)

\* Variant: no round robin, every selection scans from the highest slot.
SelectNextSwitchToThread_ScanOnly(m, ready, running) ==
    ScanReady(ready, ReadySize - 1)

\* Variant: a thread that runs keeps the processor.
SelectNextSwitchToThread_Sticky(m, ready, running) ==
    IF good(running) THEN running ELSE ScanReady(ready, ReadySize - 1)

\* Variant: past the end of a slot the scan goes on below that slot, and
\* starts from the top only when nothing is found there.
SelectNextSwitchToThread_Descend(m, ready, running) ==
    LET next == IF good(running) THEN Inc(m, running) ELSE NullIt
        below == IF good(running)
                 THEN ScanReady(ready, m[m[running.node_].value].priority_ - 1)
                 ELSE NullIt
    IN IF good(running) /\ good(next) THEN next
       ELSE IF good(below) THEN below
       ELSE ScanReady(ready, ReadySize - 1)

\* Variant: the successor is taken only when no higher slot has a thread.
SelectNextSwitchToThread_Preempt(m, ready, running) ==
    LET next == IF good(running) THEN Inc(m, running) ELSE NullIt
        top == ScanReady(ready, ReadySize - 1)
    IN IF good(running) /\ good(next)
          /\ m[m[top.node_].value].priority_ <= m[m[running.node_].value].priority_
       THEN next
       ELSE top

\* ProcessManager::SelectNextSwitchToThread (a null iterator: the kassert failed)
SelectNextSwitchToThread(m, ready, running) ==
    LET next == IF good(running) THEN Inc(m, running) ELSE NullIt
        threadSwitchTo == IF good(running) /\ good(next) THEN next ELSE NullIt
    IN IF ~good(threadSwitchTo)
       THEN ScanReady(ready, ReadySize - 1)
       ELSE threadSwitchTo

\* Variant: the kassert on the selected thread is missing.
SwitchThreadContext_NoAssert(m, ready, running) ==
    LET nextThread == SelectNextSwitchToThread(m, ready, running)
    IN [running |-> nextThread,
        thread |-> IF good(nextThread) THEN m[nextThread.node_].value ELSE 0,
        arch |-> IF good(nextThread)
                 THEN GetContext(HandleToListIt(m[nextThread.node_].value))
                 ELSE NullContext,
        fault |-> "none"]

\* Variant: the context returned is that of the thread running before.
SwitchThreadContext_StaleContext(m, ready, running) ==
    LET nextThread == SelectNextSwitchToThread(m, ready, running)
    IN IF ~good(nextThread)
       THEN [running |-> running, thread |-> 0, arch |-> NullContext,
             fault |-> "SelectNextSwitchToThread:none"]
       ELSE [running |-> nextThread, thread |-> m[nextThread.node_].value,
             arch |-> IF good(running)
                      THEN GetContext(HandleToListIt(m[running.node_].value))
                      ELSE GetContext(HandleToListIt(m[nextThread.node_].value)),
             fault |-> "none"]

\* Variant: the selected thread is not recorded in runningThread_.
SwitchThreadContext_NotRecorded(m, ready, running) ==
    LET nextThread == SelectNextSwitchToThread(m, ready, running)
    IN IF ~good(nextThread)
       THEN [running |-> running, thread |-> 0, arch |-> NullContext,
             fault |-> "SelectNextSwitchToThread:none"]
       ELSE [running |-> running, thread |-> m[nextThread.node_].value,
             arch |-> GetContext(HandleToListIt(m[nextThread.node_].value)),
             fault |-> "none"]

\* ProcessManager::SwitchThreadContext
SwitchThreadContext(m, ready, running) ==
    LET nextThread == SelectNextSwitchToThread(m, ready, running)
    IN IF ~good(nextThread)
       THEN [running |-> running, thread |-> 0, arch |-> NullContext,
             fault |-> "SelectNextSwitchToThread:none"]
       ELSE [running |-> nextThread, thread |-> m[nextThread.node_].value,
             arch |-> GetContext(HandleToListIt(m[nextThread.node_].value)),
             fault |-> "none"]

\* Variant: the handle is not used, the first process is returned.
GetProcess_First(handle) ==
    [it |-> begin(_processes),
     fault |-> IF handle = 0 THEN "GetProcess:handle" ELSE "none"]

\* ProcessManager::GetProcess: kassert(handle), then the entry of the handle
GetProcess(handle) ==
    [it |-> HandleToListIt(handle),
     fault |-> IF handle = 0 THEN "GetProcess:handle" ELSE "none"]

\* ------------------------------------------------------------ observations
NoCall == [op |-> "none", name |-> "", priority |-> 0, parameter |-> 0,
           handle |-> 0, ret |-> 0, thread |-> 0]

Call(op, name, priority, parameter, handle, ret, thread) ==
    [op |-> op, name |-> name, priority |-> priority, parameter |-> parameter,
     handle |-> handle, ret |-> ret, thread |-> thread]

\* The threads of the process at node p, the process collection, a ready slot.
ThreadsOf(p) == Nodes(mem, mem[p].threads_)
ProcessSeq == Nodes(mem, _processes)
Slot(p) == Nodes(mem, readyThreads_[p])

Range(s) == {s[i] : i \in 1..Len(s)}

\* The handles a slot holds, in order.
SlotHandles(p) == [i \in 1..Len(Slot(p)) |-> mem[Slot(p)[i]].value]

\* Every created thread: a thread node linked into some process.
CreatedThreads == UNION {Range(ThreadsOf(p)) : p \in Range(ProcessSeq)}

\* The threads created by callers (not by StartScheduler).
CallerThreads ==
    UNION {Range(ThreadsOf(p)) : p \in Range(ProcessSeq) \ {idleProcess_}}

\* The process handles the callers hold.
IssuedProcesses == Range(ProcessSeq) \ {idleProcess_}

\* The context the trampoline has resumed last: it executes the calls.
Cpu ==
    IF g_CurrentThreadContext = NullContext THEN BootContext
    ELSE g_CurrentThreadContext

\* ----------------------------------------------------------------- actions
Init ==
    /\ mem = <<>>
    /\ _processes = EmptyList
    /\ readyThreads_ = [p \in 0..(ReadySize - 1) |-> EmptyList]
    /\ runningThread_ = NullIt
    /\ idleProcess_ = 0
    /\ g_CurrentThreadContext = NullContext
    /\ timerArmed = FALSE
    /\ halted = NullContext
    /\ fault = "none"
    /\ last = NoCall

\* A caller creates a process.
DoCreateProcess ==
    /\ fault = "none"
    /\ Cardinality(CallerThreads) < MaxThreads
    /\ \E name \in Names, priority \in Priorities, entryPoint \in EntryPoints :
         LET r == CreateProcess(mem, _processes, readyThreads_, name, priority, entryPoint)
         IN /\ mem' = r.mem
            /\ _processes' = r.procs
            /\ readyThreads_' = r.ready
            /\ fault' = r.fault
            /\ last' = Call("CreateProcess", name, priority, 0, 0, r.ret, r.thread)
    /\ UNCHANGED <<runningThread_, idleProcess_, g_CurrentThreadContext, timerArmed, halted>>

\* A caller adds a thread to a process it holds the handle of.
DoAddThread ==
    /\ fault = "none"
    /\ Cardinality(CallerThreads) < MaxThreads
    /\ \E handle \in IssuedProcesses \cup {0}, priority \in Priorities,
          parameter \in Parameters, entryPoint \in EntryPoints :
         LET p == GetProcess(handle)
         IN IF p.fault # "none"
            THEN /\ fault' = p.fault
                 /\ last' = Call("AddThread", "", priority, parameter, handle, 0, 0)
                 /\ UNCHANGED <<mem, readyThreads_>>
            ELSE LET r == AddThread(mem, readyThreads_, p.it.node_, entryPoint,
                                   priority, parameter)
                 IN /\ mem' = r.mem
                    /\ readyThreads_' = r.ready
                    /\ fault' = r.fault
                    /\ last' = Call("AddThread", "", priority, parameter, handle,
                                    r.ret, r.ret)
    /\ UNCHANGED <<_processes, runningThread_, idleProcess_, g_CurrentThreadContext,
                   timerArmed, halted>>

\* Variant: the kassert on idleProcess_ is missing.
StartScheduler_NoAssert ==
    /\ fault = "none"
    /\ LET r == CreateProcess(mem, _processes, readyThreads_, "System Idle", 0, "IdleThreadMain")
       IN /\ mem' = r.mem
          /\ _processes' = r.procs
          /\ readyThreads_' = r.ready
          /\ fault' = r.fault
          /\ idleProcess_' = r.ret
          /\ timerArmed' = (r.fault = "none")
          /\ halted' = IF r.fault = "none" THEN Cpu ELSE halted
          /\ last' = Call("StartScheduler", "System Idle", 0, 0, 0, r.ret, r.thread)
    /\ UNCHANGED <<runningThread_, g_CurrentThreadContext>>

\* Variant: StartScheduler makes the idle thread the running thread.
StartScheduler_RunsIdle ==
    /\ fault = "none"
    /\ IF idleProcess_ # 0
       THEN /\ fault' = "StartScheduler:idleProcess"
            /\ last' = Call("StartScheduler", "", 0, 0, 0, 0, 0)
            /\ UNCHANGED <<mem, _processes, readyThreads_, idleProcess_, timerArmed,
                           halted, runningThread_>>
       ELSE LET r == CreateProcess(mem, _processes, readyThreads_, "System Idle", 0, "IdleThreadMain")
            IN /\ mem' = r.mem
               /\ _processes' = r.procs
               /\ readyThreads_' = r.ready
               /\ fault' = r.fault
               /\ idleProcess_' = r.ret
               /\ timerArmed' = (r.fault = "none")
               /\ halted' = IF r.fault = "none" THEN Cpu ELSE halted
               /\ runningThread_' = [node_ |-> r.ready[0].tail]
               /\ last' = Call("StartScheduler", "System Idle", 0, 0, 0, r.ret, r.thread)
    /\ UNCHANGED g_CurrentThreadContext

\* Variant: the idle process is created at the highest priority.
StartScheduler_IdleHighest ==
    /\ fault = "none"
    /\ IF idleProcess_ # 0
       THEN /\ fault' = "StartScheduler:idleProcess"
            /\ last' = Call("StartScheduler", "", 0, 0, 0, 0, 0)
            /\ UNCHANGED <<mem, _processes, readyThreads_, idleProcess_, timerArmed, halted>>
       ELSE LET r == CreateProcess(mem, _processes, readyThreads_, "System Idle",
                                   MAX_THREAD_PRIORITY, "IdleThreadMain")
            IN /\ mem' = r.mem
               /\ _processes' = r.procs
               /\ readyThreads_' = r.ready
               /\ fault' = r.fault
               /\ idleProcess_' = r.ret
               /\ timerArmed' = (r.fault = "none")
               /\ halted' = IF r.fault = "none" THEN Cpu ELSE halted
               /\ last' = Call("StartScheduler", "System Idle", 0, 0, 0, r.ret, r.thread)
    /\ UNCHANGED <<runningThread_, g_CurrentThreadContext>>

\* ProcessManager::StartScheduler
StartScheduler ==
    /\ fault = "none"
    /\ IF idleProcess_ # 0
       THEN /\ fault' = "StartScheduler:idleProcess"
            /\ last' = Call("StartScheduler", "", 0, 0, 0, 0, 0)
            /\ UNCHANGED <<mem, _processes, readyThreads_, idleProcess_, timerArmed, halted>>
       ELSE LET r == CreateProcess(mem, _processes, readyThreads_, "System Idle", 0, "IdleThreadMain")
            IN /\ mem' = r.mem
               /\ _processes' = r.procs
               /\ readyThreads_' = r.ready
               /\ fault' = r.fault
               /\ idleProcess_' = r.ret
               /\ timerArmed' = (r.fault = "none")
               /\ halted' = IF r.fault = "none" THEN Cpu ELSE halted
               /\ last' = Call("StartScheduler", "System Idle", 0, 0, 0, r.ret, r.thread)
    /\ UNCHANGED <<runningThread_, g_CurrentThreadContext>>

\* Variant: the selected context is not stored in g_CurrentThreadContext.
Kernel_SwitchThreadContext_NotPublished ==
    /\ fault = "none"
    /\ LET r == SwitchThreadContext(mem, readyThreads_, runningThread_)
       IN /\ runningThread_' = r.running
          /\ fault' = r.fault
          /\ last' = Call("SwitchThreadContext", "", 0, 0, 0, 0, r.thread)
          /\ halted' = IF r.fault = "none" /\ Cpu = halted THEN NullContext ELSE halted
    /\ UNCHANGED <<mem, _processes, readyThreads_, idleProcess_, timerArmed,
                   g_CurrentThreadContext>>

\* extern "C" Kernel_SwitchThreadContext; the trampoline then resumes the
\* published context, and a context resumed in ArchHaltProcessor leaves it.
Kernel_SwitchThreadContext ==
    /\ fault = "none"
    /\ LET r == SwitchThreadContext(mem, readyThreads_, runningThread_)
       IN /\ runningThread_' = r.running
          /\ fault' = r.fault
          /\ g_CurrentThreadContext' =
                IF r.fault = "none" THEN r.arch ELSE g_CurrentThreadContext
          /\ last' = Call("SwitchThreadContext", "", 0, 0, 0, 0, r.thread)
          /\ halted' = IF r.fault = "none" /\ r.arch = halted THEN NullContext ELSE halted
    /\ UNCHANGED <<mem, _processes, readyThreads_, idleProcess_, timerArmed>>

Next ==
    \/ DoCreateProcess
    \/ DoAddThread
    \/ StartScheduler
    \/ Kernel_SwitchThreadContext

Spec == Init /\ [][Next]_vars

TypeOK ==
    /\ fault \in {"none", "Thread:priority", "AddReadyThread:priority", "GetProcess:handle",
                  "AddReadyThread:empty", "StartScheduler:idleProcess",
                  "SelectNextSwitchToThread:none"}
    /\ idleProcess_ \in 0..Len(mem)
    /\ runningThread_.node_ \in 0..Len(mem)
\* ---------------------------------------------------------- derived views
Slots == 0..(ReadySize - 1)

\* The position of x in the sequence s.
Pos(s, x) == CHOOSE i \in 1..Len(s) : s[i] = x

\* How often x occurs in the sequence s.
Count(s, x) == Cardinality({i \in 1..Len(s) : s[i] = x})

\* The slot whose list the running cursor points into.
RunningSlot == CHOOSE p \in Slots : runningThread_.node_ \in Range(Slot(p))

\* The cursor designates the last entry of its slot.
RunningIsLast ==
    /\ good(runningThread_)
    /\ Pos(Slot(RunningSlot), runningThread_.node_) = Len(Slot(RunningSlot))

\* The non-empty slot with the highest priority index.
HighestNonEmpty ==
    CHOOSE p \in Slots : Slot(p) # <<>> /\ \A q \in Slots : q > p => Slot(q) = <<>>

\* The thread the running cursor designates (0: none).
RunningThread == IF good(runningThread_) THEN mem[runningThread_.node_].value ELSE 0

\* The idle thread: the thread of the idle process.
IdleThread == ThreadsOf(idleProcess_)[1]
\* ------------------------------------------------------------------ claims
\* C1: every created thread with a priority p in 0..MAX_THREAD_PRIORITY has
\* its handle in ready slot p exactly once and in no other slot, and every
\* handle in a slot is the handle of a created thread.
C1_ReadySlotOfPriority ==
    /\ \A t \in CreatedThreads :
          mem[t].priority_ \in 0..MAX_THREAD_PRIORITY =>
             \A p \in Slots :
                Count(SlotHandles(p), t) = IF p = mem[t].priority_ THEN 1 ELSE 0
    /\ \A p \in Slots : Range(SlotHandles(p)) \subseteq CreatedThreads

\* Threads of CreateProcess, AddThread and StartScheduler sit in two slots.
C1_Witness ==
    /\ fault = "none"
    /\ idleProcess_ # 0
    /\ \E p \in Range(ProcessSeq) : Len(ThreadsOf(p)) >= 2
    /\ \E p \in Slots : p > 0 /\ Len(Slot(p)) >= 2
    /\ last.op = "AddThread"

\* C2: when the cursor is at position i of a slot that has a position i + 1,
\* the next SwitchThreadContext moves the cursor to position i + 1 of the same
\* slot, whatever the other slots hold.
C2_RoundRobinStep ==
    [][(last'.op = "SwitchThreadContext" /\ fault = "none" /\ good(runningThread_)) =>
          \A p \in Slots : \A i \in 1..(Len(Slot(p)) - 1) :
             Slot(p)[i] = runningThread_.node_ =>
                /\ fault' = "none"
                /\ runningThread_'.node_ = Slot(p)[i + 1]
                /\ last'.thread = SlotHandles(p)[i + 1]]_vars

\* The cursor has walked to the third entry of a slot while a higher slot
\* has a thread ready.
C2_Witness ==
    /\ last.op = "SwitchThreadContext"
    /\ fault = "none"
    /\ Len(Slot(RunningSlot)) >= 3
    /\ Pos(Slot(RunningSlot), runningThread_.node_) = 3
    /\ HighestNonEmpty > RunningSlot

\* C3: a SwitchThreadContext with no running thread, or with the running
\* thread the last entry of its slot, selects the first entry of the
\* non-empty slot with the highest priority index.
C3_PriorityOnReset ==
    [][(last'.op = "SwitchThreadContext" /\ fault = "none"
          /\ (~good(runningThread_) \/ RunningIsLast)
          /\ \E p \in Slots : Slot(p) # <<>>) =>
             /\ fault' = "none"
             /\ runningThread_'.node_ = Slot(HighestNonEmpty)[1]
             /\ last'.thread = SlotHandles(HighestNonEmpty)[1]]_vars

\* A reset has put the cursor on the front of a slot above a non-empty
\* lower slot.
C3_Witness ==
    /\ last.op = "SwitchThreadContext"
    /\ fault = "none"
    /\ RunningSlot = HighestNonEmpty
    /\ runningThread_.node_ = Slot(RunningSlot)[1]
    /\ \E q \in Slots : q < RunningSlot /\ Len(Slot(q)) >= 2

\* C4: once StartScheduler has created the idle process, slot 0 is never
\* empty and no SwitchThreadContext fails to find a thread.
C4_IdleAlwaysReady ==
    idleProcess_ # 0 =>
       /\ Slot(0) # <<>>
       /\ fault # "SelectNextSwitchToThread:none"

\* A context switch after StartScheduler and a later thread creation.
C4_Witness ==
    /\ idleProcess_ # 0
    /\ last.op = "SwitchThreadContext"
    /\ fault = "none"
    /\ ProcessSeq[Len(ProcessSeq)] # idleProcess_

\* The processes named "System Idle".
IdleProcesses == {p \in Range(ProcessSeq) : mem[p].name_ = "System Idle"}

\* C5: the first StartScheduler appends one "System Idle" process with a
\* single thread of priority 0 and records it in idleProcess_; a later
\* StartScheduler fails its kassert and creates nothing.
C5_StartSchedulerOnce ==
    [][(last'.op = "StartScheduler" /\ fault = "none") =>
          IF idleProcess_ = 0
          THEN /\ fault' = "none"
               /\ idleProcess_' # 0
               /\ ProcessSeq' = Append(ProcessSeq, idleProcess_')
               /\ mem'[idleProcess_'].name_ = "System Idle"
               /\ Len(ThreadsOf(idleProcess_)') = 1
               /\ mem'[(ThreadsOf(idleProcess_)')[1]].priority_ = 0
               /\ IdleProcesses' = {idleProcess_'}
          ELSE /\ fault' = "StartScheduler:idleProcess"
               /\ mem' = mem
               /\ ProcessSeq' = ProcessSeq
               /\ idleProcess_' = idleProcess_
               /\ IdleProcesses' = {idleProcess_}]_vars

\* A second StartScheduler has been called.
C5_Witness ==
    /\ fault = "StartScheduler:idleProcess"
    /\ last.op = "StartScheduler"
    /\ idleProcess_ # 0
\* A step that is a call creating a thread for a caller.
ThreadCreation ==
    /\ fault = "none"
    /\ \/ last'.op = "CreateProcess"
       \/ last'.op = "AddThread" /\ last'.handle # 0

\* C6: creating a thread with a priority above MAX_THREAD_PRIORITY fails the
\* constructor's kassert and enqueues nothing; with priority
\* MAX_THREAD_PRIORITY it succeeds, passes the bounds kassert of
\* AddReadyThread and is appended to slot MAX_THREAD_PRIORITY.
C6_PriorityBound ==
    [][ThreadCreation =>
          /\ last'.priority > MAX_THREAD_PRIORITY =>
                /\ fault' = "Thread:priority"
                /\ last'.thread = 0
                /\ \A p \in Slots : Slot(p)' = Slot(p)
          /\ last'.priority = MAX_THREAD_PRIORITY =>
                /\ fault' = "none"
                /\ last'.thread # 0
                /\ mem'[last'.thread].priority_ = MAX_THREAD_PRIORITY
                /\ SlotHandles(MAX_THREAD_PRIORITY)'
                      = Append(SlotHandles(MAX_THREAD_PRIORITY), last'.thread)
                /\ \A p \in Slots \ {MAX_THREAD_PRIORITY} : Slot(p)' = Slot(p)]_vars

\* A creation at MAX_THREAD_PRIORITY went through, a later one above it
\* stopped the kernel.
C6_Witness ==
    /\ fault = "Thread:priority"
    /\ last.op \in {"CreateProcess", "AddThread"}
    /\ last.priority > MAX_THREAD_PRIORITY
    /\ Slot(MAX_THREAD_PRIORITY) # <<>>

\* C7: after StartScheduler, SwitchThreadContext selects the idle thread only
\* when the slots 1..MAX_THREAD_PRIORITY are all empty.
C7_IdleOnlyWhenNothingElseReady ==
    (/\ idleProcess_ # 0
     /\ last.op = "SwitchThreadContext"
     /\ fault = "none"
     /\ last.thread = IdleThread) =>
        \A p \in 1..MAX_THREAD_PRIORITY : Slot(p) = <<>>

\* The processes are A (the first) and B (the second), both of priority 3,
\* and the idle process, each with the one thread it was created with.
ScenarioAB ==
    /\ Len(ProcessSeq) = 3
    /\ idleProcess_ = ProcessSeq[3]
    /\ \A i \in 1..3 : Len(ThreadsOf(ProcessSeq[i])) = 1
    /\ mem[ThreadsOf(ProcessSeq[1])[1]].priority_ = 3
    /\ mem[ThreadsOf(ProcessSeq[2])[1]].priority_ = 3

ThreadA == ThreadsOf(ProcessSeq[1])[1]
ThreadB == ThreadsOf(ProcessSeq[2])[1]

\* C8: after CreateProcess(A, 3), CreateProcess(B, 3) and StartScheduler the
\* context switches select A, B, A, B, ...: A when nothing runs yet or B
\* runs, B when A runs; the idle thread is never selected.
C8_AlternateAB ==
    [][(ScenarioAB /\ last'.op = "SwitchThreadContext" /\ fault = "none") =>
          /\ fault' = "none"
          /\ last'.thread # IdleThread
          /\ RunningThread' = last'.thread
          /\ last'.thread =
                IF RunningThread = ThreadA THEN ThreadB ELSE ThreadA]_vars

\* In the scenario B runs, selected after A.
C8_Witness ==
    /\ ScenarioAB
    /\ last.op = "SwitchThreadContext"
    /\ fault = "none"
    /\ RunningThread = ThreadB
    /\ g_CurrentThreadContext.node = ThreadB

\* The processes are one caller process with a single thread of priority 0,
\* and after it the idle process.
ScenarioT ==
    /\ Len(ProcessSeq) = 2
    /\ idleProcess_ = ProcessSeq[2]
    /\ Len(ThreadsOf(ProcessSeq[1])) = 1
    /\ mem[ThreadsOf(ProcessSeq[1])[1]].priority_ = 0

ThreadT == ThreadsOf(ProcessSeq[1])[1]

\* C9: with one process T of priority 0 created before StartScheduler, slot 0
\* is <<T's thread, idle thread>>, the other slots are empty, and the first
\* context switch (no running thread yet) selects T's thread.
C9_FirstOfSlotZero ==
    [][ScenarioT =>
          /\ SlotHandles(0) = <<ThreadT, IdleThread>>
          /\ \A p \in Slots \ {0} : Slot(p) = <<>>
          /\ (last'.op = "SwitchThreadContext" /\ ~good(runningThread_)) =>
                /\ fault' = "none"
                /\ last'.thread = ThreadT
                /\ RunningThread' = ThreadT
                /\ last'.thread # IdleThread]_vars

\* In the scenario the first switch has selected T's thread.
C9_Witness ==
    /\ ScenarioT
    /\ last.op = "SwitchThreadContext"
    /\ fault = "none"
    /\ RunningThread = ThreadT
    /\ runningThread_.node_ = Slot(0)[1]

\* Every process has a thread.
EveryProcessHasThread == \A p \in Range(ProcessSeq) : Len(ThreadsOf(p)) >= 1

\* C10: a completed CreateProcess (of a caller or of StartScheduler) appends
\* one process at the tail of the process collection, with one thread of the
\* given priority and parameter 0, and returns the handle of that process;
\* while the kernel runs every process has at least one thread.
C10_CreateProcessResult ==
    [][/\ (last'.op \in {"CreateProcess", "StartScheduler"}
            /\ fault = "none" /\ fault' = "none") =>
             /\ ProcessSeq' = Append(ProcessSeq, last'.ret)
             /\ mem'[last'.ret].kind = "Process"
             /\ mem'[last'.ret].name_ = last'.name
             /\ Nodes(mem', mem'[last'.ret].threads_) = <<last'.thread>>
             /\ mem'[last'.thread].kind = "Thread"
             /\ mem'[last'.thread].priority_ = last'.priority
             /\ mem'[last'.thread].threadContext_.parameter = 0
             /\ \A q \in Range(ProcessSeq) : ThreadsOf(q)' = ThreadsOf(q)
       /\ fault' = "none" => EveryProcessHasThread']_vars

\* A CreateProcess has completed next to a process with two threads.
C10_Witness ==
    /\ last.op = "CreateProcess"
    /\ fault = "none"
    /\ last.priority > 0
    /\ Len(ProcessSeq) >= 2
    /\ \E p \in Range(ProcessSeq) : Len(ThreadsOf(p)) >= 2
\* C11: a context switch with every ready slot empty fails the kassert of
\* SelectNextSwitchToThread: no context is published and the running cursor
\* is not set.
C11_SwitchWithNothingReady ==
    [][(last'.op = "SwitchThreadContext" /\ fault = "none"
          /\ \A p \in Slots : Slot(p) = <<>>) =>
             /\ fault' = "SelectNextSwitchToThread:none"
             /\ last'.thread = 0
             /\ runningThread_' = runningThread_
             /\ ~good(runningThread_')
             /\ g_CurrentThreadContext' = g_CurrentThreadContext
             /\ g_CurrentThreadContext' = NullContext]_vars

\* A context switch was made before any process or the idle process existed.
C11_Witness ==
    /\ fault = "SelectNextSwitchToThread:none"
    /\ last.op = "SwitchThreadContext"
    /\ ProcessSeq = <<>>
    /\ idleProcess_ = 0
\* The contexts of the created threads that are in the ready set.
ReadyContexts ==
    {GetContext(HandleToListIt(h)) :
        h \in CreatedThreads \cap UNION {Range(SlotHandles(p)) : p \in Slots}}

\* StartScheduler order: the idle process exists when the timer is armed,
\* the caller halts only with the timer armed; every context a switch
\* publishes is that of a created thread of the ready set.
StartSchedulerOrder ==
    /\ timerArmed => idleProcess_ # 0 /\ IdleThread \in Range(SlotHandles(0))
    /\ halted # NullContext => timerArmed
    /\ g_CurrentThreadContext # NullContext => g_CurrentThreadContext \in ReadyContexts

EntryData(m, it) ==
    [kind |-> m[it.node_].kind, name_ |-> m[it.node_].name_,
     priority_ |-> m[it.node_].priority_, threadContext_ |-> m[it.node_].threadContext_]

\* Handle and entry of every process and every created thread correspond.
HandleRoundTrip ==
    /\ \A p \in Range(ProcessSeq) :
          LET it == [node_ |-> p]
          IN /\ HandleToListIt(ToHandle(it)) = it
             /\ ToHandle(HandleToListIt(p)) = p
             /\ GetProcess(ToHandle(it)).fault = "none"
             /\ GetProcess(ToHandle(it)).it = it
             /\ mem[GetProcess(ToHandle(it)).it.node_].kind = "Process"
    /\ \A t \in CreatedThreads :
          LET it == [node_ |-> t]
          IN /\ HandleToListIt(ToHandle(it)) = it
             /\ ToHandle(HandleToListIt(t)) = t
             /\ mem[HandleToListIt(ToHandle(it)).node_].kind = "Thread"

C14_PublishedContextOfRunning ==
    /\ good(runningThread_) =>
          /\ g_CurrentThreadContext.node = mem[runningThread_.node_].value
          /\ g_CurrentThreadContext.field = "threadContext_"
          /\ mem[g_CurrentThreadContext.node].kind = "Thread"
          /\ g_CurrentThreadContext.node = last.thread \/ last.op # "SwitchThreadContext"
    /\ ~good(runningThread_) => g_CurrentThreadContext = NullContext
    /\ (last.op = "SwitchThreadContext" /\ fault = "none") => good(runningThread_)

\* A second thread of a slot has been selected and its context published.
C14_Witness ==
    /\ last.op = "SwitchThreadContext"
    /\ fault = "none"
    /\ g_CurrentThreadContext.node = RunningThread
    /\ Pos(Slot(RunningSlot), runningThread_.node_) >= 2
\* The calls that are not the context-switch entry point.
OtherCalls == {"CreateProcess", "AddThread", "StartScheduler"}

\* The handles of all ready slots, slot by slot.
AllSlotHandles == [p \in Slots |-> SlotHandles(p)]

\* C15 as claimed: a step of CreateProcess, Process::AddThread or
\* StartScheduler changes neither the ready queues nor the running cursor.
C15_OnlySwitchTouchesScheduler ==
    [][last'.op \in OtherCalls =>
          /\ runningThread_' = runningThread_
          /\ readyThreads_' = readyThreads_
          /\ AllSlotHandles' = AllSlotHandles]_vars

\* C15 amended: the running cursor is changed by the context-switch entry
\* point only; the ready queues are changed only by CreateProcess,
\* Process::AddThread and StartScheduler, through AddReadyThread, which adds
\* the thread just created.
C15_CursorOnlyBySwitch ==
    [][/\ runningThread_' # runningThread_ => last'.op = "SwitchThreadContext"
       /\ last'.op \in OtherCalls => runningThread_' = runningThread_
       /\ AllSlotHandles' # AllSlotHandles =>
             /\ last'.op \in OtherCalls
             /\ last'.thread # 0
             /\ \E p \in Slots :
                   AllSlotHandles' = [AllSlotHandles EXCEPT
                                         ![p] = Append(AllSlotHandles[p], last'.thread)]
       /\ (last'.op \in OtherCalls /\ fault' = "none") =>
             AllSlotHandles' # AllSlotHandles]_vars

\* A process was created while a thread was running: its thread is at the
\* tail of a ready slot and the cursor is where it was.
C15_Witness ==
    /\ last.op = "CreateProcess"
    /\ fault = "none"
    /\ good(runningThread_)
    /\ \E p \in Slots : Slot(p) # <<>> /\ SlotHandles(p)[Len(Slot(p))] = last.thread
    /\ RunningThread # last.thread
\* The sequence s is a prefix of the sequence t.
IsPrefix(s, t) == Len(s) <= Len(t) /\ \A i \in 1..Len(s) : s[i] = t[i]

\* C16: across every step the former contents of each ready slot are a
\* prefix of its new contents; AddReadyThread changes only the slot of the
\* thread's priority and leaves it non-empty; SwitchThreadContext leaves the
\* ready slots and the process collection unchanged.
C16_SlotsGrowAtTail ==
    [][LET before == AllSlotHandles
           after == AllSlotHandles'
       IN /\ \A p \in Slots :
                /\ IsPrefix(before[p], after[p])
                /\ IsPrefix(Slot(p), Slot(p)')
          /\ (last'.op \in OtherCalls /\ last'.thread # 0) =>
                LET priority == mem'[last'.thread].priority_
                IN /\ after[priority] = Append(before[priority], last'.thread)
                   /\ after[priority] # <<>>
                   /\ ~empty(readyThreads_'[priority])
                   /\ \A p \in Slots \ {priority} :
                         /\ after[p] = before[p]
                         /\ readyThreads_'[p] = readyThreads_[p]
          /\ last'.op = "SwitchThreadContext" =>
                /\ readyThreads_' = readyThreads_
                /\ after = before
                /\ _processes' = _processes
                /\ ProcessSeq' = ProcessSeq
                /\ mem' = mem]_vars

\* A thread was appended behind another in its slot while a different slot
\* is in use too.
C16_Witness ==
    /\ last.op \in OtherCalls
    /\ fault = "none"
    /\ last.thread # 0
    /\ Len(Slot(mem[last.thread].priority_)) >= 2
    /\ SlotHandles(mem[last.thread].priority_)[Len(Slot(mem[last.thread].priority_))]
          = last.thread
    /\ \E q \in Slots \ {mem[last.thread].priority_} : Slot(q) # <<>>
    /\ good(runningThread_)
\* C17: once a context switch has completed the running cursor is never
\* 'none' again, and it designates an entry of the ready slot whose index is
\* the priority of the thread the entry holds.
C17_CursorStaysInReadySlot ==
    [][/\ good(runningThread_) => good(runningThread_')
       /\ (last'.op = "SwitchThreadContext" /\ fault' = "none") => good(runningThread_')
       /\ good(runningThread_') =>
             LET thread == RunningThread'
                 priority == mem'[thread].priority_
             IN /\ mem'[runningThread_'.node_].kind = "Handle"
                /\ mem'[thread].kind = "Thread"
                /\ priority \in Slots
                /\ runningThread_'.node_ \in Range(Nodes(mem', readyThreads_'[priority]))
                /\ RunningSlot' = priority]_vars

\* Threads were created after the cursor had been set to an entry of a slot
\* above slot 0.
C17_Witness ==
    /\ good(runningThread_)
    /\ last.op \in {"CreateProcess", "AddThread"}
    /\ fault = "none"
    /\ RunningSlot > 0
    /\ Slot(RunningSlot)[Len(Slot(RunningSlot))] # runningThread_.node_
\* The timer armed by StartScheduler keeps the context switches coming.
LiveSpec == Spec /\ WF_vars(timerArmed /\ Kernel_SwitchThreadContext)

\* The longest a ready slot can get.
MaxSlotLen == MaxThreads + 1

\* The kernel runs with the timer armed and entry i of the highest non-empty
\* slot exists.
HighestHas(i) ==
    /\ fault = "none"
    /\ timerArmed
    /\ Len(Slot(HighestNonEmpty)) >= i

\* The last step was a context switch that selected entry i of the highest
\* non-empty slot.
HighestSelected(i) ==
    /\ last.op = "SwitchThreadContext"
    /\ runningThread_.node_ = Slot(HighestNonEmpty)[i]
    /\ last.thread = SlotHandles(HighestNonEmpty)[i]

\* C18: when threads are no longer created and context switches keep
\* occurring, every entry of the highest non-empty slot is selected again
\* and again, and a switch made with the cursor in that slot selects the
\* next entry in slot order, the first one after the last.
C18_HighestSlotServedForever ==
    /\ \A i \in 1..MaxSlotLen : []<>(~HighestHas(i) \/ HighestSelected(i))
    /\ [][(last'.op = "SwitchThreadContext" /\ fault = "none"
             /\ good(runningThread_) /\ RunningSlot = HighestNonEmpty) =>
                LET slot == Slot(HighestNonEmpty)
                    i == Pos(slot, runningThread_.node_)
                IN runningThread_'.node_ = slot[IF i < Len(slot) THEN i + 1 ELSE 1]]_vars

\* The second entry of the highest slot is selected, with a lower slot
\* holding threads too.
C18_Witness ==
    /\ HighestHas(2)
    /\ HighestSelected(2)
    /\ HighestNonEmpty > 0
    /\ Slot(0) # <<>>

\* C19: a context switch made with the cursor in the highest non-empty slot
\* selects a thread of that slot again: while no thread is created, no
\* thread of a lower slot, the idle thread included, is selected any more.
C19_LowerSlotsStarve ==
    [][(last'.op = "SwitchThreadContext" /\ fault = "none"
          /\ good(runningThread_) /\ RunningSlot = HighestNonEmpty) =>
             /\ fault' = "none"
             /\ RunningSlot' = HighestNonEmpty
             /\ mem[last'.thread].priority_ = HighestNonEmpty
             /\ \A q \in Slots : q < HighestNonEmpty =>
                   last'.thread \notin Range(SlotHandles(q))
             /\ (idleProcess_ # 0 /\ HighestNonEmpty > 0) => last'.thread # IdleThread]_vars

\* The cursor has come back to the front of the highest slot past its end,
\* with the idle thread and another thread waiting in slot 0.
C19_Witness ==
    /\ last.op = "SwitchThreadContext"
    /\ fault = "none"
    /\ idleProcess_ # 0
    /\ RunningSlot = HighestNonEmpty
    /\ HighestNonEmpty > 0
    /\ Len(Slot(0)) >= 2
    /\ g_CurrentThreadContext.node = SlotHandles(HighestNonEmpty)[1]

\* One thread is alone in the highest non-empty slot, above the slot the
\* running cursor is in: a thread created above all others, not selected yet.
NewcomerPending ==
    /\ fault = "none"
    /\ good(runningThread_)
    /\ RunningSlot < HighestNonEmpty
    /\ Len(Slot(HighestNonEmpty)) = 1

Newcomer == SlotHandles(HighestNonEmpty)[1]

\* The context switches left before the newcomer is selected, less one:
\* n - i - 1 for the cursor at 0-based position i of a slot of length n.
Delay == Len(Slot(RunningSlot)) - Pos(Slot(RunningSlot), runningThread_.node_)

\* C20: with the cursor at 0-based position i of a slot of length n and a
\* thread created above all others, each of the next n - i - 1 context
\* switches selects the next entry of the cursor's slot and not the new
\* thread, and the switch after them selects the new thread.
C20_DelayedPreemption ==
    [][(NewcomerPending /\ last'.op = "SwitchThreadContext") =>
          IF Delay > 0
          THEN /\ last'.thread # Newcomer
               /\ RunningSlot' = RunningSlot
               /\ NewcomerPending'
               /\ Newcomer' = Newcomer
               /\ Delay' = Delay - 1
          ELSE /\ last'.thread = Newcomer
               /\ RunningThread' = Newcomer
               /\ g_CurrentThreadContext'.node = Newcomer]_vars

\* A process was just created above all threads while the cursor had two
\* entries of its slot left to go.
C20_Witness ==
    /\ NewcomerPending
    /\ last.op = "CreateProcess"
    /\ last.thread = Newcomer
    /\ Delay = 2
====
